---- MODULE Spec2Model ----
(***************************************************************************)
(* Model of speakers_alternatives_spiritual.py: the directory-page load,   *)
(* the card parser, the retrying detail fetcher, the detail parser, the    *)
(* sequential enrich loop, the teardown and the pandas post-processing.    *)
(*                                                                         *)
(* A Python str is a sequence of tokens (a token is a run of characters:   *)
(* a word, a blank " ", a paragraph break); "" is the empty sequence.      *)
(* An Optional value is a sequence of length 0 (None) or 1 (the value).    *)
(***************************************************************************)
EXTENDS Integers, Sequences, FiniteSets, TLC

\* ----------------------------------------------------------------- bounds
\* Largest number of div.views-row elements on the directory page.
MaxCards == 2

\* ------------------------------------------------------------ CONFIG (15-20)
RETRY_ATTEMPTS == 3

BASE == "https://www.alternatives.org.uk"

\* ------------------------------------------------------------------ values
None == <<>>

Some(x) == <<x>>

EmptyStr == <<>>

\* The sentinel of df.replace (line 145), as a str.
NA == <<"N/A">>

Blank == " "

\* Number of characters of a token.
TokLen(t) ==
    CASE t = "N/A" -> 3
      [] t = "\n\n" -> 2
      [] t = "biography" -> 40
      [] t = BASE -> 31
      [] OTHER -> 1

RECURSIVE StrLen(_)
\* len(text)
StrLen(s) == IF s = <<>> THEN 0 ELSE TokLen(Head(s)) + StrLen(Tail(s))

RECURSIVE LStrip(_)
LStrip(s) == IF s # <<>> /\ Head(s) = Blank THEN LStrip(Tail(s)) ELSE s

RECURSIVE RStrip(_)
RStrip(s) ==
    IF s # <<>> /\ s[Len(s)] = Blank THEN RStrip(SubSeq(s, 1, Len(s) - 1)) ELSE s

\* str.strip()
Strip(s) == RStrip(LStrip(s))

RECURSIVE Join(_, _)
\* sep.join(parts)
Join(parts, sep) ==
    IF parts = <<>> THEN EmptyStr
    ELSE IF Len(parts) = 1 THEN parts[1]
    ELSE parts[1] \o sep \o Join(Tail(parts), sep)

RECURSIVE StrippedStrings(_)
\* bs4 _all_strings(strip=True): every text node stripped, the empty ones skipped.
StrippedStrings(nodes) ==
    IF nodes = <<>> THEN <<>>
    ELSE LET s == Strip(Head(nodes))
         IN  (IF s = EmptyStr THEN <<>> ELSE <<s>>) \o StrippedStrings(Tail(nodes))

\* Tag.get_text(sep, strip=True) of an element whose text nodes are `nodes`.
GetText(nodes, sep) == Join(StrippedStrings(nodes), sep)

\* bool(x) of an Optional[str]: None and "" are falsy.
Truthy(opt) == opt # None /\ opt[1] # EmptyStr

\* urljoin(BASE, href): an href with a scheme is kept, a path is put under BASE.
urljoin(base, href) ==
    IF Head(href) = "http:" THEN href ELSE <<base>> \o href

\* ---------------------------------------------------------- parse_main_cards
\* One div.views-row: `a` is the Optional first "h3 a" element (its text nodes
\* and its Optional href), `ul` the Optional first <ul> (its <li> elements, each
\* the sequence of its text nodes).
CardOf(node) ==
    LET a          == node.a
        name       == IF a # None THEN GetText(a[1].strings, EmptyStr) ELSE EmptyStr
        href       == IF a # None THEN a[1].href ELSE None
        detail_url == IF Truthy(href) THEN Some(urljoin(BASE, href[1])) ELSE None
        lis        == IF node.ul # None THEN node.ul[1] ELSE <<>>
        first_tag  == IF lis # <<>> THEN GetText(lis[1], EmptyStr) ELSE EmptyStr
        last_tag   == IF lis # <<>> THEN GetText(lis[Len(lis)], EmptyStr) ELSE EmptyStr
    IN  [Name |-> Strip(name), FirstTag |-> Strip(first_tag),
         LastTag |-> Strip(last_tag), DetailURL |-> detail_url]

\* results, in the order of soup.select("div.views-row")
parse_main_cards(html) == [i \in 1..Len(html) |-> CardOf(html[i])]

\* ------------------------------------------------------ parse_about_from_html
\* One div.field-content: `ps` its <p> elements (each its text nodes) and
\* `strings` all the text nodes of the block.
BlockParts(block) ==
    IF block.ps # <<>>
    THEN LET texts == [i \in 1..Len(block.ps) |-> GetText(block.ps[i], <<Blank>>)]
         IN  SelectSeq(texts, LAMBDA t : t # EmptyStr)
    ELSE LET text == GetText(block.strings, <<Blank>>)
         IN  IF text # EmptyStr /\ StrLen(text) > 30 THEN <<text>> ELSE <<>>

RECURSIVE AllParts(_)
AllParts(blocks) ==
    IF blocks = <<>> THEN <<>> ELSE BlockParts(Head(blocks)) \o AllParts(Tail(blocks))

\* html is Optional; a document is [empty, blocks]: `empty` says the markup is
\* the empty string, `blocks` are its div.field-content elements.
parse_about_from_html(html) ==
    IF html = None \/ html[1].empty THEN EmptyStr
    ELSE Strip(Join(AllParts(html[1].blocks), <<"\n\n">>))

\* --------------------------------------------------------------- tenacity
\* stop_after_attempt(RETRY_ATTEMPTS)
stop_after_attempt_gt(attempt_number) == attempt_number > RETRY_ATTEMPTS

stop_after_attempt(attempt_number) == attempt_number >= RETRY_ATTEMPTS

Min2(a, b) == IF a < b THEN a ELSE b

Max2(a, b) == IF a > b THEN a ELSE b

\* wait_exponential(multiplier=1, min=1, max=10), in seconds
wait_exponential(attempt_number) ==
    Max2(1, Min2(1 * 2 ^ (attempt_number - 1), 10))

\* ------------------------------------------------------------ post-processing
\* df.replace(["", None], "N/A") on one cell (every cell is a str, 130-135)
Replace(v) == IF v = EmptyStr THEN NA ELSE v

ReplaceRow(r) ==
    [Name |-> Replace(r.Name), FirstTag |-> Replace(r.FirstTag),
     LastTag |-> Replace(r.LastTag), About |-> Replace(r.About)]

ReplaceAll(rows) == [i \in 1..Len(rows) |-> ReplaceRow(rows[i])]

\* df.drop_duplicates() (keep="first") followed by reset_index(drop=True)
drop_duplicates(rows) ==
    LET F[i \in 0..Len(rows)] ==
          IF i = 0 THEN <<>>
          ELSE IF \E j \in 1..(i - 1) : rows[j] = rows[i]
               THEN F[i - 1] ELSE Append(F[i - 1], rows[i])
    IN  F[Len(rows)]

\* A buggy variant of lines 145-146: duplicates dropped before the replace.
PostProcessDedupFirst(rows) == ReplaceAll(drop_duplicates(rows))

\* lines 144-147
PostProcess(rows) == drop_duplicates(ReplaceAll(rows))

\* ------------------------------------------------------------------ inputs
\* The div.views-row elements the directory page may hold.
DirectoryRows ==
    { [a |-> None, ul |-> None],
      [a |-> Some([strings |-> << <<Blank, "a", Blank>> >>, href |-> Some(<<"/a">>)]),
       ul |-> Some(<< << <<"x">> >>, << <<"y">> >> >>)],
      [a |-> Some([strings |-> << <<"N/A">> >>, href |-> Some(EmptyStr)]),
       ul |-> Some(<<>>)],
      [a |-> Some([strings |-> << <<"b">> >>, href |-> Some(<<"http:", "//o/b">>)]),
       ul |-> Some(<< << <<Blank, "x">> >> >>)] }

RECURSIVE SeqsUpTo(_, _)
SeqsUpTo(S, n) ==
    IF n = 0 THEN {<<>>}
    ELSE LET shorter == SeqsUpTo(S, n - 1)
         IN  shorter \cup {Append(q, x) : q \in shorter, x \in S}

\* The rendered directory pages: the rows of the page, in document order.
DirectoryPages == SeqsUpTo(DirectoryRows, MaxCards)

\* The rendered detail pages.
DetailPages ==
    { [empty |-> TRUE, blocks |-> <<>>],
      [empty |-> FALSE,
       blocks |-> << [ps |-> <<>>, strings |-> << <<"c">> >>] >>],
      [empty |-> FALSE,
       blocks |-> << [ps |-> <<>>, strings |-> << <<"c">> >>],
                     [ps |-> <<>>, strings |-> << <<"biography">>, <<Blank>> >>],
                     [ps |-> << << <<"h">>, <<Blank, "i">> >>, << <<Blank>> >> >>,
                      strings |-> << <<"h">>, <<Blank, "i">>, <<Blank>> >>] >>] }

\* What a Playwright call may raise.
Exceptions == {"pwTimeout", "Error"}

Ok(v) == [kind |-> "ok", v |-> Some(v), e |-> "none"]

Err(x) == [kind |-> "err", v |-> None, e |-> x]

NoOutcome == [kind |-> "none", v |-> None, e |-> "none"]

\* ------------------------------------------------------------------- state
VARIABLES
    pc,            \* position of main / fetch_detail_html
    pw,            \* the async_playwright() context manager
    browser,       \* "none", "open", "closed"
    context,       \* "none", "open", "closed"
    contextCloses, \* calls of context.close() that returned
    browserCloses, \* calls of browser.close() that returned
    loadTried,     \* the page.goto calls on START_URL: [wait_until, result]
    exc,           \* Optional exception propagating out of main
    abortAt,       \* where the propagating exception was raised
    main_html,     \* Optional directory page
    records,       \* Optional result of parse_main_cards
    idx,           \* cards the loop has finished
    tries,         \* per card, the attempts of fetch_detail_html started
    waited,        \* seconds slept by tenacity in the current call
    pagesLive,     \* pages opened by fetch_detail_html, close() not yet called
    body,          \* outcome of the try body of the current attempt (30-35)
    outcome,       \* outcome of the current attempt after the finally
    closeRaised,   \* whether page.close() raised in the current attempt
    html,          \* Optional value returned by fetch_detail_html
    about_text,
    outcomes,      \* per card, how its biography was settled
    speakers,
    df,            \* Optional DataFrame rows after lines 144-147
    output         \* Optional rows written to OUTPUT_FILE

vars == <<pc, pw, browser, context, contextCloses, browserCloses, loadTried, exc,
          abortAt, main_html, records, idx, tries, waited, pagesLive, body,
          outcome, closeRaised, html, about_text, outcomes, speakers, df, output>>

resources == <<browser, context, contextCloses, browserCloses, pw>>

loadVars == <<loadTried, main_html, records>>

fetchVars == <<tries, waited, pagesLive, body, outcome, closeRaised, html>>

loopVars == <<idx, about_text, outcomes, speakers>>

outVars == <<df, output>>

Init ==
    /\ pc = "launch"
    /\ pw = "running"
    /\ browser = "none"
    /\ context = "none"
    /\ contextCloses = 0
    /\ browserCloses = 0
    /\ loadTried = <<>>
    /\ exc = None
    /\ abortAt = "none"
    /\ main_html = None
    /\ records = None
    /\ idx = 0
    /\ tries = <<>>
    /\ waited = 0
    /\ pagesLive = 0
    /\ body = NoOutcome
    /\ outcome = NoOutcome
    /\ closeRaised = FALSE
    /\ html = None
    /\ about_text = EmptyStr
    /\ outcomes = <<>>
    /\ speakers = <<>>
    /\ df = None
    /\ output = None

\* An exception e leaves main at `where`: the async with block is left next.
Raise(e, where) ==
    /\ exc' = Some(e)
    /\ abortAt' = where
    /\ pc' = "pw_exit"

\* ------------------------------------------------------- main: lines 94-113
\* browser = await pw.chromium.launch(headless=True)
Launch ==
    /\ pc = "launch"
    /\ browser' = "open"
    /\ pc' = "new_context"
    /\ UNCHANGED <<pw, context, contextCloses, browserCloses, exc, abortAt>>
    /\ UNCHANGED <<loadVars, fetchVars, loopVars, outVars>>

\* context = await browser.new_context(...)
NewContext ==
    /\ pc = "new_context"
    /\ context' = "open"
    /\ pc' = "new_page"
    /\ UNCHANGED <<pw, browser, contextCloses, browserCloses, exc, abortAt>>
    /\ UNCHANGED <<loadVars, fetchVars, loopVars, outVars>>

\* page = await context.new_page()
NewMainPage ==
    /\ pc = "new_page"
    /\ pc' = "goto_networkidle"
    /\ UNCHANGED <<exc, abortAt>>
    /\ UNCHANGED <<resources, loadVars, fetchVars, loopVars, outVars>>

\* await page.goto(START_URL, timeout=30000, wait_until="networkidle")
GotoNetworkIdle ==
    /\ pc = "goto_networkidle"
    /\ \E r \in {"ok"} \cup Exceptions :
         /\ loadTried' = Append(loadTried, [wait_until |-> "networkidle", result |-> r])
         /\ pc' = CASE r = "ok" -> "content"
                    [] r = "pwTimeout" -> "goto_domcontentloaded"
                    [] OTHER -> "close_main"
         /\ exc' = IF r = "Error" THEN Some(r) ELSE exc
         /\ abortAt' = IF r = "Error" THEN "load" ELSE abortAt
    /\ UNCHANGED <<main_html, records>>
    /\ UNCHANGED <<resources, fetchVars, loopVars, outVars>>

\* A buggy variant of line 110: the failure of the fallback is swallowed and
\* the run goes on with an empty page.
GotoDomContentLoadedSwallow ==
    /\ pc = "goto_domcontentloaded"
    /\ \E r \in {"ok"} \cup Exceptions :
         /\ loadTried' =
              Append(loadTried, [wait_until |-> "domcontentloaded", result |-> r])
         /\ pc' = IF r = "ok" THEN "content" ELSE "close_main"
         /\ main_html' = IF r = "ok" THEN main_html ELSE Some(<<>>)
    /\ UNCHANGED <<exc, abortAt, records>>
    /\ UNCHANGED <<resources, fetchVars, loopVars, outVars>>

\* except pwTimeout: await page.goto(START_URL, ..., wait_until="domcontentloaded")
GotoDomContentLoaded ==
    /\ pc = "goto_domcontentloaded"
    /\ \E r \in {"ok"} \cup Exceptions :
         /\ loadTried' =
              Append(loadTried, [wait_until |-> "domcontentloaded", result |-> r])
         /\ pc' = IF r = "ok" THEN "content" ELSE "close_main"
         /\ exc' = IF r = "ok" THEN exc ELSE Some(r)
         /\ abortAt' = IF r = "ok" THEN abortAt ELSE "load"
    /\ UNCHANGED <<main_html, records>>
    /\ UNCHANGED <<resources, fetchVars, loopVars, outVars>>

\* main_html = await page.content()   (lines 106-107 and 111)
MainContent ==
    /\ pc = "content"
    /\ \E h \in DirectoryPages : main_html' = Some(h)
    /\ pc' = "close_main"
    /\ UNCHANGED <<exc, abortAt, loadTried, records>>
    /\ UNCHANGED <<resources, fetchVars, loopVars, outVars>>

\* finally: await page.close(); a pending exception then leaves main
CloseMainPage ==
    /\ pc = "close_main"
    /\ \/ /\ exc = None
          /\ pc' = "parse"
          /\ UNCHANGED <<exc, abortAt>>
       \/ /\ exc # None
          /\ pc' = "pw_exit"
          /\ UNCHANGED <<exc, abortAt>>
       \/ Raise("Error", "load")
    /\ UNCHANGED <<resources, loadVars, fetchVars, loopVars, outVars>>

\* records = parse_main_cards(main_html)
ParseCards ==
    /\ pc = "parse"
    /\ LET cards == parse_main_cards(main_html[1])
       IN  /\ records' = Some(cards)
           /\ tries' = [i \in 1..Len(cards) |-> 0]
           /\ outcomes' = [i \in 1..Len(cards) |-> "pending"]
    /\ idx' = 0
    /\ pc' = "loop"
    /\ UNCHANGED <<exc, abortAt, loadTried, main_html, about_text, speakers>>
    /\ UNCHANGED <<waited, pagesLive, body, outcome, closeRaised, html>>
    /\ UNCHANGED <<resources, outVars>>

\* ---------------------------------------------------- enrich loop: 120-138
\* The card of the current iteration (rec).
cur == idx + 1

rec == records[1][cur]

\* A buggy variant of line 123: the fetch is started whatever the Detail URL.
LoopNextAlwaysFetch ==
    /\ pc = "loop"
    /\ IF idx = Len(records[1])
       THEN /\ pc' = "context_close"
            /\ UNCHANGED <<about_text, outcomes>>
       ELSE /\ about_text' = EmptyStr
            /\ pc' = "f_new_page"
            /\ UNCHANGED outcomes
    /\ UNCHANGED <<idx, speakers, fetchVars, exc, abortAt>>
    /\ UNCHANGED <<resources, loadVars, outVars>>

\* for idx, rec in enumerate(records, start=1): ... if detail_url:
LoopNext ==
    /\ pc = "loop"
    /\ IF idx = Len(records[1])
       THEN /\ pc' = "context_close"
            /\ UNCHANGED <<about_text, outcomes>>
       ELSE /\ about_text' = EmptyStr
            /\ IF Truthy(rec.DetailURL)
               THEN /\ pc' = "f_new_page"
                    /\ UNCHANGED outcomes
               ELSE /\ pc' = "append"
                    /\ outcomes' = [outcomes EXCEPT ![cur] = "no_url"]
    /\ UNCHANGED <<idx, speakers, fetchVars, exc, abortAt>>
    /\ UNCHANGED <<resources, loadVars, outVars>>

\* ------------------------------------------------ fetch_detail_html: 27-40
\* One attempt starts: page = await context.new_page(), outside the try.
FetchNewPage ==
    /\ pc = "f_new_page"
    /\ tries' = [tries EXCEPT ![cur] = @ + 1]
    /\ \/ /\ pagesLive' = pagesLive + 1
          /\ body' = NoOutcome
          /\ outcome' = NoOutcome
          /\ pc' = "f_goto"
       \/ /\ body' = Err("Error")
          /\ outcome' = Err("Error")
          /\ pc' = "f_retry"
          /\ UNCHANGED pagesLive
    /\ UNCHANGED <<waited, closeRaised, html, exc, abortAt>>
    /\ UNCHANGED <<resources, loadVars, loopVars, outVars>>

\* await page.goto(url, timeout=PAGE_TIMEOUT_MS, wait_until="domcontentloaded")
FetchGoto ==
    /\ pc = "f_goto"
    /\ \/ /\ pc' = "f_wait"
          /\ UNCHANGED body
       \/ \E e \in Exceptions :
            /\ body' = Err(e)
            /\ pc' = "f_close"
    /\ UNCHANGED <<tries, waited, pagesLive, outcome, closeRaised, html, exc, abortAt>>
    /\ UNCHANGED <<resources, loadVars, loopVars, outVars>>

\* await page.wait_for_selector("div.field-content", timeout=PAGE_TIMEOUT_MS)
FetchWait ==
    /\ pc = "f_wait"
    /\ \/ /\ pc' = "f_content"
          /\ UNCHANGED body
       \/ \E e \in Exceptions :
            /\ body' = Err(e)
            /\ pc' = "f_close"
    /\ UNCHANGED <<tries, waited, pagesLive, outcome, closeRaised, html, exc, abortAt>>
    /\ UNCHANGED <<resources, loadVars, loopVars, outVars>>

\* await asyncio.sleep(0.2); return await page.content()
FetchContent ==
    /\ pc = "f_content"
    /\ \/ \E d \in DetailPages : body' = Ok(d)
       \/ body' = Err("Error")
    /\ pc' = "f_close"
    /\ UNCHANGED <<tries, waited, pagesLive, outcome, closeRaised, html, exc, abortAt>>
    /\ UNCHANGED <<resources, loadVars, loopVars, outVars>>

\* A buggy variant of lines 36-40: the failure of page.close() is not caught
\* and replaces the outcome of the try body.
FetchClosePageRaises ==
    /\ pc = "f_close"
    /\ pagesLive' = pagesLive - 1
    /\ \E raised \in BOOLEAN :
         /\ closeRaised' = raised
         /\ outcome' = IF raised THEN Err("Error") ELSE body
    /\ pc' = "f_retry"
    /\ UNCHANGED <<tries, waited, body, html, exc, abortAt>>
    /\ UNCHANGED <<resources, loadVars, loopVars, outVars>>

\* finally: try: await page.close() except Exception: pass
FetchClosePage ==
    /\ pc = "f_close"
    /\ pagesLive' = pagesLive - 1
    /\ \E raised \in BOOLEAN : closeRaised' = raised
    /\ outcome' = body
    /\ pc' = "f_retry"
    /\ UNCHANGED <<tries, waited, body, html, exc, abortAt>>
    /\ UNCHANGED <<resources, loadVars, loopVars, outVars>>

\* tenacity's loop around one attempt (line 27): return the result, reraise the
\* last exception when stop_after_attempt says so, otherwise sleep and retry.
RetryDecide ==
    /\ pc = "f_retry"
    /\ IF outcome.kind = "ok"
       THEN /\ html' = outcome.v
            /\ pc' = "parse_about"
            /\ UNCHANGED waited
       ELSE IF stop_after_attempt(tries[cur])
       THEN /\ pc' = "except"
            /\ UNCHANGED <<html, waited>>
       ELSE /\ waited' = waited + wait_exponential(tries[cur])
            /\ pc' = "f_new_page"
            /\ UNCHANGED html
    /\ closeRaised' = FALSE
    /\ UNCHANGED <<tries, pagesLive, body, outcome, exc, abortAt>>
    /\ UNCHANGED <<resources, loadVars, loopVars, outVars>>

\* about_text = parse_about_from_html(html), which may raise
ParseAbout ==
    /\ pc = "parse_about"
    /\ \/ /\ pc' = "except"
          /\ UNCHANGED <<about_text, outcomes>>
       \/ /\ about_text' = parse_about_from_html(html)
          /\ outcomes' = [outcomes EXCEPT ![cur] = "ok"]
          /\ pc' = "append"
    /\ UNCHANGED <<idx, speakers, exc, abortAt>>
    /\ UNCHANGED <<resources, loadVars, fetchVars, outVars>>

\* The locals of one iteration (about_text, html and the state of the finished
\* fetch_detail_html call) are dead once the row is appended.
EndIteration ==
    /\ about_text' = EmptyStr
    /\ html' = None
    /\ body' = NoOutcome
    /\ outcome' = NoOutcome
    /\ closeRaised' = FALSE
    /\ waited' = 0

\* Why the except clause runs: the fetch gave up, or the parser raised.
Failure == IF outcome.kind = "err" THEN "fetch_failed" ELSE "parse_error"

\* A buggy variant of lines 127-128: the exception is raised again.
ExceptHandlerReraise ==
    /\ pc = "except"
    /\ outcomes' = [outcomes EXCEPT ![cur] = Failure]
    /\ Raise("Error", "loop")
    /\ UNCHANGED <<idx, speakers, about_text>>
    /\ UNCHANGED <<resources, loadVars, fetchVars, outVars>>

\* A buggy variant of lines 127-128: the loop goes on with the next card
\* (continue) and the row is not appended.
ExceptHandlerContinue ==
    /\ pc = "except"
    /\ EndIteration
    /\ outcomes' = [outcomes EXCEPT ![cur] = Failure]
    /\ idx' = idx + 1
    /\ pc' = "loop"
    /\ UNCHANGED <<speakers, exc, abortAt>>
    /\ UNCHANGED <<tries, pagesLive>>
    /\ UNCHANGED <<resources, loadVars, outVars>>

\* A buggy variant of lines 127-128: the biography is the error's text.
ExceptHandlerErrorText ==
    /\ pc = "except"
    /\ about_text' = <<"E">>
    /\ outcomes' = [outcomes EXCEPT ![cur] = Failure]
    /\ pc' = "append"
    /\ UNCHANGED <<idx, speakers, exc, abortAt>>
    /\ UNCHANGED <<resources, loadVars, fetchVars, outVars>>

\* except (RetryError, pwTimeout, Exception): about_text = ""
ExceptHandler ==
    /\ pc = "except"
    /\ about_text' = EmptyStr
    /\ outcomes' = [outcomes EXCEPT ![cur] = Failure]
    /\ pc' = "append"
    /\ UNCHANGED <<idx, speakers, exc, abortAt>>
    /\ UNCHANGED <<resources, loadVars, fetchVars, outVars>>

\* The row of lines 130-135.
SpeakerRow ==
    [Name |-> Strip(rec.Name), FirstTag |-> Strip(rec.FirstTag),
     LastTag |-> Strip(rec.LastTag), About |-> Strip(about_text)]

\* A buggy variant of line 130: the row is put in front.
AppendSpeakerInFront ==
    /\ pc = "append"
    /\ speakers' = <<SpeakerRow>> \o speakers
    /\ idx' = idx + 1
    /\ pc' = "loop"
    /\ EndIteration
    /\ UNCHANGED <<tries, pagesLive, outcomes, exc, abortAt>>
    /\ UNCHANGED <<resources, loadVars, outVars>>

\* speakers.append({...}), and the loop goes to the next card
AppendSpeaker ==
    /\ pc = "append"
    /\ speakers' = Append(speakers, SpeakerRow)
    /\ idx' = idx + 1
    /\ pc' = "loop"
    /\ EndIteration
    /\ UNCHANGED <<tries, pagesLive, outcomes, exc, abortAt>>
    /\ UNCHANGED <<resources, loadVars, outVars>>

\* ------------------------------------------------------ teardown: 140-141
\* await context.close()   (the call is taken to return)
ContextClose ==
    /\ pc = "context_close"
    /\ context' = "closed"
    /\ contextCloses' = contextCloses + 1
    /\ pc' = "browser_close"
    /\ UNCHANGED <<pw, browser, browserCloses, exc, abortAt>>
    /\ UNCHANGED <<loadVars, fetchVars, loopVars, outVars>>

\* await browser.close()   (the call is taken to return)
BrowserClose ==
    /\ pc = "browser_close"
    /\ browser' = "closed"
    /\ browserCloses' = browserCloses + 1
    /\ pc' = "pw_exit"
    /\ UNCHANGED <<pw, context, contextCloses, exc, abortAt>>
    /\ UNCHANGED <<loadVars, fetchVars, loopVars, outVars>>

\* The end of "async with async_playwright() as pw" (line 94): Playwright is
\* stopped, and a pending exception leaves main.
PlaywrightExit ==
    /\ pc = "pw_exit"
    /\ pw' = "stopped"
    /\ pc' = IF exc = None THEN "post" ELSE "aborted"
    /\ UNCHANGED <<browser, context, contextCloses, browserCloses, exc, abortAt>>
    /\ UNCHANGED <<loadVars, fetchVars, loopVars, outVars>>

\* ------------------------------------------------ post-process and emit
\* df = pd.DataFrame(speakers, ...); replace; drop_duplicates; reset_index
PostProcessStep ==
    /\ pc = "post"
    /\ df' = Some(PostProcess(speakers))
    /\ pc' = "emit"
    /\ UNCHANGED <<output, exc, abortAt>>
    /\ UNCHANGED <<resources, loadVars, fetchVars, loopVars>>

\* df.to_excel(OUTPUT_FILE, index=False); style_excel(OUTPUT_FILE)
Emit ==
    /\ pc = "emit"
    /\ \/ /\ output' = df
          /\ pc' = "done"
          /\ UNCHANGED <<exc, abortAt>>
       \/ /\ exc' = Some("Error")
          /\ abortAt' = "sink"
          /\ pc' = "aborted"
          /\ UNCHANGED output
    /\ UNCHANGED df
    /\ UNCHANGED <<resources, loadVars, fetchVars, loopVars>>

Next ==
    \/ Launch
    \/ NewContext
    \/ NewMainPage
    \/ GotoNetworkIdle
    \/ GotoDomContentLoaded
    \/ MainContent
    \/ CloseMainPage
    \/ ParseCards
    \/ LoopNext
    \/ FetchNewPage
    \/ FetchGoto
    \/ FetchWait
    \/ FetchContent
    \/ FetchClosePage
    \/ RetryDecide
    \/ ParseAbout
    \/ ExceptHandler
    \/ AppendSpeaker
    \/ ContextClose
    \/ BrowserClose
    \/ PlaywrightExit
    \/ PostProcessStep
    \/ Emit

Spec == Init /\ [][Next]_vars

\* Every awaited call returns or raises (each navigation and wait has a
\* timeout), so main always takes its next step.
LiveSpec == Init /\ [][Next]_vars /\ WF_vars(Next)

\* ================================================================== claims
Parsed == records # None

Cards == records[1]

NCards == Len(Cards)

\* The positions of main inside the enrich loop (lines 120-138).
LoopPcs ==
    {"loop", "f_new_page", "f_goto", "f_wait", "f_content", "f_close", "f_retry",
     "parse_about", "except", "append"}

Terminated == pc \in {"done", "aborted"}

RECURSIVE SumSeq(_)
SumSeq(q) == IF q = <<>> THEN 0 ELSE Head(q) + SumSeq(Tail(q))

HasRow(rows, r) == \E j \in 1..Len(rows) : rows[j] = r

\* Index of the first occurrence of r in rows.
FirstPos(rows, r) ==
    CHOOSE i \in 1..Len(rows) : rows[i] = r /\ \A j \in 1..(i - 1) : rows[j] # r

\* The rows come in the order of their first occurrences in `from`.
InFirstOccurrenceOrder(rows, from) ==
    /\ \A j \in 1..Len(rows) : HasRow(from, rows[j])
    /\ \A j, k \in 1..Len(rows) :
         j < k => FirstPos(from, rows[j]) < FirstPos(from, rows[k])

\* C1: the enrich loop runs one iteration per card and never aborts early: the
\* speakers list grows by one record per finished card, has one record per card
\* once the loop is left, and a card whose fetch or parse failed or that has no
\* Detail URL has an empty About the Speaker.
C1_OneRecordPerCard ==
    Parsed =>
      /\ idx <= NCards
      /\ Len(speakers) = idx
      /\ (pc \notin LoopPcs => Len(speakers) = NCards)
      /\ \A i \in 1..Len(speakers) :
           outcomes[i] \in {"fetch_failed", "parse_error", "no_url"}
             => speakers[i].About = EmptyStr

C1_Witness ==
    /\ pc = "context_close"
    /\ NCards = 2
    /\ outcomes = <<"fetch_failed", "parse_error">>
    /\ Len(speakers) = 2

\* C2: after every prefix of the loop the i-th record of speakers carries the
\* Name, First Tag and Last Tag of the i-th card, and the rows that survive
\* normalization and deduplication keep the relative order of their cards.
C2_OrderPreserved ==
    Parsed =>
      /\ Len(speakers) <= NCards
      /\ \A i \in 1..Len(speakers) :
           /\ i <= NCards
           /\ speakers[i].Name = Cards[i].Name
           /\ speakers[i].FirstTag = Cards[i].FirstTag
           /\ speakers[i].LastTag = Cards[i].LastTag
      /\ (df # None => InFirstOccurrenceOrder(df[1], ReplaceAll(speakers)))

C2_Witness ==
    /\ pc = "done"
    /\ Len(output[1]) = 2
    /\ Cards[1].Name = <<"b">>
    /\ Cards[2].Name = <<"a">>
    /\ output[1][1].Name = <<"b">>
    /\ output[1][2].Name = <<"a">>

\* C3: one call of fetch_detail_html makes at most 3 attempts, a new attempt
\* starts only after the previous one failed, and a call whose third attempt
\* succeeds returns the HTML that attempt captured.
C3_AtMostThreeAttempts ==
    Parsed =>
      /\ \A i \in 1..NCards : tries[i] <= 3
      /\ (pc = "f_new_page" /\ tries[cur] > 0 => outcome.kind = "err")
      /\ (pc = "parse_about" => body.kind = "ok" /\ html = body.v)

C3_Witness ==
    /\ pc = "parse_about"
    /\ tries[cur] = 3
    /\ waited = 3
    /\ html # None

\* C4: when all 3 attempts fail the fetcher raises (it returns only what a
\* successful attempt captured), the run goes on, the record's biography is
\* the empty string and it is emitted as "N/A".
C4_ExhaustionGivesNA ==
    Parsed =>
      /\ (pc = "parse_about" => outcome.kind = "ok")
      /\ (pc = "except" /\ outcome.kind = "err" => tries[cur] = 3 /\ html = None)
      /\ abortAt # "loop"
      /\ \A i \in 1..NCards :
           outcomes[i] = "fetch_failed" =>
             /\ tries[i] = 3
             /\ (i = cur => pc = "append" /\ about_text = EmptyStr)
             /\ (i <= idx => /\ i <= Len(speakers)
                             /\ speakers[i].About = EmptyStr
                             /\ ReplaceRow(speakers[i]).About = NA)
             /\ (df # None => HasRow(df[1], ReplaceRow(speakers[i])))
             /\ (output # None => HasRow(output[1], ReplaceRow(speakers[i])))

C4_Witness ==
    /\ pc = "done"
    /\ \E i \in 1..NCards : outcomes[i] = "fetch_failed"
    /\ \E j \in 1..Len(output[1]) :
         output[1][j].Name = <<"a">> /\ output[1][j].About = NA

\* C5: the directory page is loaded with "networkidle" first and, on a timeout
\* of that load, once more with "domcontentloaded"; when the fallback fails
\* too the run is aborted: no card is parsed, no detail page is fetched and no
\* output is written.
C5_FallbackOnceThenAbort ==
    /\ Len(loadTried) <= 2
    /\ (Len(loadTried) >= 1 => loadTried[1].wait_until = "networkidle")
    /\ (Len(loadTried) = 2 =>
          /\ loadTried[1].result = "pwTimeout"
          /\ loadTried[2].wait_until = "domcontentloaded")
    /\ (Len(loadTried) = 1 /\ loadTried[1].result = "pwTimeout"
          => pc = "goto_domcontentloaded")
    /\ (Len(loadTried) = 2 /\ loadTried[2].result # "ok" =>
          /\ pc \in {"close_main", "pw_exit", "aborted"}
          /\ exc # None
          /\ records = None
          /\ tries = <<>>
          /\ speakers = <<>>
          /\ df = None
          /\ output = None)

C5_Witness ==
    /\ pc = "aborted"
    /\ Len(loadTried) = 2
    /\ loadTried[2].result = "pwTimeout"
    /\ output = None

\* C6: the browser context and the browser are closed exactly once on every
\* run that opened them, and not before the last detail fetch has finished.
C6_ClosedOnEveryRun ==
    /\ contextCloses <= 1
    /\ browserCloses <= 1
    /\ (context = "closed" \/ browser = "closed"
          => Parsed /\ pc \notin LoopPcs /\ idx = NCards)
    /\ (Terminated /\ context # "none" => contextCloses = 1)
    /\ (Terminated /\ browser # "none" => browserCloses = 1)

\* C7: the page an attempt opened has had close() called on it before the next
\* attempt opens a page or the call returns, on every path, and a close() that
\* raises leaves the attempt's outcome as the try body set it.
C7_PageReleased ==
    /\ pagesLive \in {0, 1}
    /\ (pagesLive = 1 => pc \in {"f_goto", "f_wait", "f_content", "f_close"})
    /\ (pc = "f_retry" => outcome = body)

C7_Witness ==
    /\ pc = "f_retry"
    /\ closeRaised
    /\ outcome.kind = "ok"
    /\ pagesLive = 0

\* C8: the rows are normalized first and deduplicated after: no emitted field
\* is empty, no two emitted rows are equal, every normalized row survives
\* once, at the place of its first occurrence.
C8_NormalizedThenDeduplicated ==
    /\ (df # None =>
          LET rows == df[1]
              norm == ReplaceAll(speakers)
          IN  /\ \A j \in 1..Len(rows) :
                   /\ rows[j].Name # EmptyStr
                   /\ rows[j].FirstTag # EmptyStr
                   /\ rows[j].LastTag # EmptyStr
                   /\ rows[j].About # EmptyStr
              /\ \A j, k \in 1..Len(rows) : j # k => rows[j] # rows[k]
              /\ \A i \in 1..Len(norm) : HasRow(rows, norm[i])
              /\ InFirstOccurrenceOrder(rows, norm))
    /\ (output # None => output = df)

C8_Witness ==
    /\ pc = "done"
    /\ Len(speakers) = 2
    /\ speakers[1] # speakers[2]
    /\ Len(output[1]) = 1

\* The normalized row of card i with an empty biography.
FailedRow(i) ==
    [Name |-> Replace(Cards[i].Name), FirstTag |-> Replace(Cards[i].FirstTag),
     LastTag |-> Replace(Cards[i].LastTag), About |-> NA]

\* C9 as stated: when every detail fetch failed the rows handed to the writer
\* are one per card, each with biography "N/A".
C9_OneRowPerCardEmitted ==
    (output # None /\ \A i \in 1..NCards : outcomes[i] = "fetch_failed") =>
      /\ Len(output[1]) = NCards
      /\ \A j \in 1..Len(output[1]) : output[1][j].About = NA

\* C9 amended: when every detail fetch failed the rows handed to the writer
\* are the cards' rows with biography "N/A", exact duplicates removed: every
\* card has its row, and there is one row per distinct normalized card.
C9_FailedRunEmitsDistinctRows ==
    (output # None /\ \A i \in 1..NCards : outcomes[i] \in {"fetch_failed", "no_url"})
      => LET rows == output[1] IN
         /\ \A i \in 1..NCards : HasRow(rows, FailedRow(i))
         /\ \A j \in 1..Len(rows) : \E i \in 1..NCards : rows[j] = FailedRow(i)
         /\ Len(rows) = Cardinality({FailedRow(i) : i \in 1..NCards})

C9_Witness ==
    /\ pc = "done"
    /\ NCards = 2
    /\ \A i \in 1..NCards : outcomes[i] = "fetch_failed"
    /\ Len(output[1]) = 1

\* The cards that have a Detail URL.
WithURL == {i \in 1..NCards : Cards[i].DetailURL # None}

C10_AttemptBound ==
    Parsed =>
      /\ \A i \in 1..NCards : Cards[i].DetailURL = None => tries[i] = 0
      /\ SumSeq(tries) <= 3 * Cardinality(WithURL)

====
